---------------------------- MODULE Spec2Model ----------------------------
(***************************************************************************)
(* Model of screenpipe-vision/src/utils.rs: the OCR reconstructor          *)
(* (data_output_to_text, data_output_to_json), the frame capture adapter   *)
(* (capture_screenshot), the frame comparison (compare_images_histogram,   *)
(* compare_images_ssim, compare_with_previous_image) and the text-file     *)
(* sink (save_text_files).                                                 *)
(*                                                                         *)
(* Each component has its own specification (SpecOcr, SpecCapture,         *)
(* SpecCompare, SpecSave); the variables of the other components stay at   *)
(* their idle values.                                                      *)
(***************************************************************************)
EXTENDS Integers, Sequences, FiniteSets, TLC

VARIABLES
    \* ---- perform_ocr_tesseract
    data,        \* data_output.data: the token records handed over by the OCR backend
    ocr_pc,      \* "start" before perform_ocr_tesseract has run, "done" after
    text_out,    \* the String returned by data_output_to_text
    json_out,    \* the Vec<HashMap<String,String>> serialised by data_output_to_json
    scan_trace,  \* the locals of data_output_to_json before the loop and after each iteration
    \* ---- capture_screenshot
    cap_calls,   \* calls of capture_screenshot made so far
    cap_env,     \* what the two capture backends answer to the last call
    cap_result,  \* what the last call returned: Ok((image, windows, hash, duration)) or Err
    cap_trace,   \* the backend requests and computations of the last call, in order
    cap_log,     \* what the last call logged
    \* ---- compare_images_ssim, compare_with_previous_image
    frame_number,    \* the frame ordinal passed to the last call (0 before the first)
    previous_image,  \* the previous_image argument of the last call
    current_image,   \* the current_image argument of the last call
    max_average,     \* the caller's Option<MaxAverageFrame> passed by &mut
    max_avg_value,   \* the caller's running maximum passed by &mut
    cmp_op,          \* the function called last
    cmp_env,         \* what the two library comparisons answer to the last call
    cmp_result,      \* what the last call returned; kind "Panic" when it unwound
    cmp_trace,       \* the comparisons the last call attempted, in order
    best,            \* the observation with the largest score returned so far
    crashed,         \* a panic has unwound the calling task
    \* ---- save_text_files
    save_in,     \* the arguments: frame_number and the three text_json values
    fs,          \* how the file system answers: create_dir_all, File::create, writeln!
    save_result, \* "none" before the call, then "returned" or "panicked"
    save_trace,  \* the file-system requests of the call, in order
    save_log,    \* what the call logged
    files,       \* the lines of each file the call created, by path
    \* ---- calculate_hash
    hash_log     \* the calls of calculate_hash so far: the image given and the u64 returned

ocr_vars == <<data, ocr_pc, text_out, json_out, scan_trace>>
cap_vars == <<cap_calls, cap_env, cap_result, cap_trace, cap_log>>
cmp_vars == <<frame_number, previous_image, current_image, max_average,
              max_avg_value, cmp_op, cmp_env, cmp_result, cmp_trace, best, crashed>>
save_vars == <<save_in, fs, save_result, save_trace, save_log, files>>
hash_vars == <<hash_log>>
vars == <<ocr_vars, cap_vars, cmp_vars, save_vars, hash_vars>>

----------------------------------------------------------------------------
(* Bounds of the model *)

MaxLen == 3          \* longest arbitrary token stream
MaxWords == 2        \* most words of a well-formed single-line stream
MaxWordNum == 2      \* largest word ordinal of a token
MaxWidth == 2        \* widest image
MaxCaptures == 2     \* calls of capture_screenshot in a run
MaxFrames == 3       \* frames compared in a run
MaxLines == 1        \* most records of a text_json argument
MaxHashCalls == 2    \* direct calls of calculate_hash in a run

----------------------------------------------------------------------------
(* Images *)

None == [some |-> FALSE]
Some(v) == [some |-> TRUE, value |-> v]

\* A decoded image: its dimensions and its raw bytes (one byte per pixel here).
Images ==
    UNION {[width : {w}, height : {1}, bytes : [1..w -> {0, 1}]] : w \in 1..MaxWidth}

HashModulus == 65521

RECURSIVE HashBytes(_, _, _)
\* Hasher::write over the bytes from index i on, h being the hasher's state.
HashBytes(bytes, i, h) ==
    IF i > Len(bytes) THEN h
    ELSE HashBytes(bytes, i + 1, (h * 31 + bytes[i] + 1) % HashModulus)

\* A calculate_hash that hashes the image value (dimensions and bytes) instead of
\* image.as_bytes().
calculate_hash_of_image(image) ==
    HashBytes(image.bytes, 1, (7 * 31 + image.width * 8 + image.height) % HashModulus)

\* calculate_hash: a fresh DefaultHasher fed the byte slice (its length, then its
\* bytes), finished.  The hasher's mixing is abstracted to a polynomial hash.
calculate_hash(image) == HashBytes(image.bytes, 1, (7 * 31 + Len(image.bytes)) % HashModulus)

\* The images handed to calculate_hash directly: distinct instances (id) of every
\* shape of up to MaxWidth pixels, so that two of them can hold the same bytes.
HashedImages ==
    UNION {[id : {1, 2}, width : {d[1]}, height : {d[2]}, bytes : [1..d[1] * d[2] -> {0, 1}]] :
              d \in {e \in (1..MaxWidth) \X (1..MaxWidth) : e[1] * e[2] <= MaxWidth}}

InitHash == hash_log = <<>>

\* One direct call of calculate_hash (it is pub).
CalculateHash ==
    /\ Len(hash_log) < MaxHashCalls
    /\ \E image \in HashedImages :
          hash_log' = Append(hash_log, [image |-> image, hash |-> calculate_hash(image)])

----------------------------------------------------------------------------
(* OCR tokens (rusty_tesseract::Data records read by the scan) *)

Texts == {"", "a", "b"}
Confs == {50, 90}
LineNums == {1, 2}

\* A row of the backend's table with word_num = 0 (page, block, paragraph or line
\* row); the row that follows a line's words may belong to the next line.
MarkerTokens ==
    [level : {4}, page_num : {1}, block_num : {1}, par_num : {1},
     line_num : LineNums, word_num : {0}, conf : {-1}, text : {"", "a"}]

\* A word row.
WordTokens ==
    [level : {5}, page_num : {1}, block_num : {1}, par_num : {1},
     line_num : {1}, word_num : 1..MaxWordNum, conf : Confs, text : Texts]

Tokens == MarkerTokens \cup WordTokens


\* data_output.data as handed to the two conversions.  Arbitrary streams up to
\* MaxLen tokens, and the well-formed single-line streams: a marker, words with
\* ordinals 1..n, a marker.
ArbitraryStreams == UNION {[1..n -> Tokens] : n \in 0..MaxLen}

\* What a word row carries besides its ordinal.
WordPayloads == [line_num : {1}, conf : Confs, text : Texts]

WordToken(k, p) ==
    [level |-> 5, page_num |-> 1, block_num |-> 1, par_num |-> 1,
     line_num |-> p.line_num, word_num |-> k, conf |-> p.conf, text |-> p.text]

LineStreams ==
    UNION {{[i \in 1..n + 2 |->
                IF i = 1 THEN open
                ELSE IF i = n + 2 THEN close
                ELSE WordToken(i - 1, w[i - 1])] :
              open \in MarkerTokens, close \in MarkerTokens,
              w \in [1..n -> WordPayloads]}
           : n \in 1..MaxWords}

Streams == ArbitraryStreams \cup LineStreams

----------------------------------------------------------------------------
(* data_output_to_text *)

RECURSIVE TextFrom(_, _, _)
\* The for loop of data_output_to_text from record i on, text being the String so far.
TextFrom(records, i, text) ==
    IF i > Len(records) THEN text
    ELSE LET record == records[i]
             pushed == IF record.text # ""
                       THEN (IF text # "" THEN text \o " " ELSE text) \o record.text
                       ELSE text
         IN TextFrom(records, i + 1, pushed)

\* A data_output_to_text that keeps only the texts of word rows.
data_output_to_text_words_only(records) ==
    TextFrom(SelectSeq(records, LAMBDA r : r.word_num # 0), 1, "")

data_output_to_text(records) == TextFrom(records, 1, "")

----------------------------------------------------------------------------
(* data_output_to_json *)

\* format!("{:.2}", current_conf / word_count as f32): the quotient rounded to
\* hundredths (ties to even), printed with two decimals.  0.0 / 0 is NaN.
FormatAvgConf(current_conf, word_count) ==
    IF word_count = 0 THEN "NaN"
    ELSE LET scaled == current_conf * 100
             q == scaled \div word_count
             r == scaled % word_count
             h == IF 2 * r > word_count THEN q + 1
                  ELSE IF 2 * r = word_count THEN q + (q % 2)
                  ELSE q
             frac == h % 100
         IN ToString(h \div 100) \o "." \o
            (IF frac < 10 THEN "0" ELSE "") \o ToString(frac)

\* format!("level{}page_num{}block_num{}par_num{}line_num{}", record....)
FormatLinePosition(record) ==
    "level" \o ToString(record.level) \o
    "page_num" \o ToString(record.page_num) \o
    "block_num" \o ToString(record.block_num) \o
    "par_num" \o ToString(record.par_num) \o
    "line_num" \o ToString(record.line_num)

\* The locals of data_output_to_json before the loop.
ScanInit ==
    [lines |-> <<>>, current_line |-> "", current_conf |-> 0,
     word_count |-> 0, last_word_num |-> 0]

\* The HashMap pushed when a marker closes a non-empty line.
MarkerLineData(st, record) ==
    [text |-> st.current_line,
     confidence |-> FormatAvgConf(st.current_conf, st.word_count),
     line_position |-> FormatLinePosition(record)]

\* A marker branch without the is_empty test: every marker pushes a record.
MarkerFlushUnguarded(st, record) ==
    IF record.word_num = 0
    THEN [st EXCEPT !.lines = Append(@, MarkerLineData(st, record)),
                    !.current_line = "",
                    !.current_conf = 0,
                    !.word_count = 0]
    ELSE st

\* A flush at every token whose ordinal does not increase, marker or not.
MarkerFlushOnRestart(st, record) ==
    IF record.word_num <= st.last_word_num /\ st.current_line # ""
    THEN [st EXCEPT !.lines = Append(@, MarkerLineData(st, record)),
                    !.current_line = "",
                    !.current_conf = 0,
                    !.word_count = 0]
    ELSE st

\* if record.word_num == 0 { if !current_line.is_empty() { push; clear } }
MarkerFlush(st, record) ==
    IF record.word_num = 0 /\ st.current_line # ""
    THEN [st EXCEPT !.lines = Append(@, MarkerLineData(st, record)),
                    !.current_line = "",
                    !.current_conf = 0,
                    !.word_count = 0]
    ELSE st

\* An AcceptWord that pushes the text without the separating space.
AcceptWordNoSeparator(st, record) ==
    IF record.word_num > st.last_word_num
    THEN [st EXCEPT !.current_line = @ \o record.text,
                    !.current_conf = @ + record.conf,
                    !.word_count = @ + 1]
    ELSE st

\* if record.word_num > last_word_num { push ' ' unless empty; push text; add conf; count }
AcceptWord(st, record) ==
    IF record.word_num > st.last_word_num
    THEN [st EXCEPT !.current_line =
                        (IF @ # "" THEN @ \o " " ELSE @) \o record.text,
                    !.current_conf = @ + record.conf,
                    !.word_count = @ + 1]
    ELSE st

\* An iteration that remembers the ordinal of accepted words only.
ScanStepUpdatesOnAccept(st, record) ==
    LET flushed == MarkerFlush(st, record)
    IN IF record.word_num > st.last_word_num
       THEN [AcceptWord(flushed, record) EXCEPT !.last_word_num = record.word_num]
       ELSE flushed

\* One iteration of the for loop.
ScanStep(st, record) ==
    [AcceptWord(MarkerFlush(st, record), record)
        EXCEPT !.last_word_num = record.word_num]

RECURSIVE ScanFrom(_, _, _)
ScanFrom(records, i, st) ==
    IF i > Len(records) THEN st
    ELSE ScanFrom(records, i + 1, ScanStep(st, records[i]))

\* The locals of data_output_to_json after the loop.
Scan(records) == ScanFrom(records, 1, ScanInit)

\* The locals before the loop (element 1) and after iteration k (element k + 1).
ScanStates(records) ==
    [k \in 1..Len(records) + 1 |-> Scan(SubSeq(records, 1, k - 1))]

\* The HashMap pushed for a line still open at the end of the stream.
TrailingLineData(st) ==
    [text |-> st.current_line,
     confidence |-> FormatAvgConf(st.current_conf, st.word_count)]

\* A data_output_to_json without the flush after the loop.
TrailingFlushMissing(st) == st.lines

\* A flush after the loop without the is_empty test.
TrailingFlushUnguarded(st) == Append(st.lines, TrailingLineData(st))

\* if !current_line.is_empty() { push } after the loop
TrailingFlush(st) ==
    IF st.current_line # ""
    THEN Append(st.lines, TrailingLineData(st))
    ELSE st.lines

\* The Vec of line maps that data_output_to_json serialises (to_string_pretty keeps
\* the order of the Vec and the key/value pairs of each map).
data_output_to_json(records) == TrailingFlush(Scan(records))

----------------------------------------------------------------------------
(* perform_ocr_tesseract *)

InitOcr ==
    /\ data \in Streams
    /\ ocr_pc = "start"
    /\ text_out = ""
    /\ json_out = <<>>
    /\ scan_trace = <<>>

\* perform_ocr_tesseract: both conversions of the backend's data output.
PerformOcrTesseract ==
    /\ ocr_pc = "start"
    /\ text_out' = data_output_to_text(data)
    /\ json_out' = data_output_to_json(data)
    /\ scan_trace' = ScanStates(data)
    /\ ocr_pc' = "done"
    /\ UNCHANGED data

----------------------------------------------------------------------------
(* capture_screenshot *)

\* What monitor.capture_image() can answer.
MonitorAnswers == {[ok |-> FALSE]} \cup {[ok |-> TRUE, buffer |-> im] : im \in Images}

\* A captured window: (image, title, app name, focused).
Windows == [image : {im \in Images : im.width = 1}, title : {"t"}, app : {"app"}, focused : BOOLEAN]

\* What capture_all_visible_windows().await can answer.
WindowAnswers ==
    {[ok |-> FALSE]} \cup {[ok |-> TRUE, images |-> ws] : ws \in {<<>>} \cup {<<w>> : w \in Windows}}

\* capture_start.elapsed(), in milliseconds.
Durations == {1, 2}

\* let buffer = monitor.capture_image().map_err(..)?  -- the error is logged and replaced.
CaptureFailed ==
    [result |-> [kind |-> "Err", error |-> "Monitor capture failed"],
     trace |-> <<"capture_image">>,
     log |-> <<"error: Failed to capture monitor image">>]

\* match capture_all_visible_windows().await { Ok(images) => images, Err(e) => { warn; Vec::new() } }
WindowImages(answer) == IF answer.ok THEN answer.images ELSE <<>>

WindowLog(answer) ==
    IF answer.ok THEN <<>>
    ELSE <<"warn: Failed to capture window images. Continuing with empty result.">>

\* A capture_screenshot that propagates the window backend's error
\* (capture_all_visible_windows().await? instead of the match).
capture_screenshot_windows_fatal(monitor, windows, elapsed) ==
    IF ~monitor.ok THEN CaptureFailed
    ELSE IF ~windows.ok
    THEN [result |-> [kind |-> "Err", error |-> "Window capture failed"],
          trace |-> <<"capture_image", "calculate_hash", "capture_all_visible_windows">>,
          log |-> <<>>]
    ELSE [result |-> [kind |-> "Ok",
                      image |-> monitor.buffer,
                      window_images |-> windows.images,
                      image_hash |-> calculate_hash(monitor.buffer),
                      capture_duration |-> elapsed],
          trace |-> <<"capture_image", "calculate_hash", "capture_all_visible_windows">>,
          log |-> <<>>]

\* A capture_screenshot that asks the monitor a second time before giving up and
\* goes on to the windows all the same.
capture_screenshot_retrying(monitor, windows, elapsed) ==
    IF ~monitor.ok
    THEN [result |-> [kind |-> "Err", error |-> "Monitor capture failed"],
          trace |-> <<"capture_image", "capture_image", "capture_all_visible_windows">>,
          log |-> <<"error: Failed to capture monitor image">>]
    ELSE [result |-> [kind |-> "Ok",
                      image |-> monitor.buffer,
                      window_images |-> WindowImages(windows),
                      image_hash |-> calculate_hash(monitor.buffer),
                      capture_duration |-> elapsed],
          trace |-> <<"capture_image", "calculate_hash", "capture_all_visible_windows">>,
          log |-> WindowLog(windows)]

\* capture_screenshot, given the answers of the two backends and the elapsed time.
capture_screenshot(monitor, windows, elapsed) ==
    IF ~monitor.ok THEN CaptureFailed
    ELSE LET image == monitor.buffer
             image_hash == calculate_hash(image)
         IN [result |-> [kind |-> "Ok",
                         image |-> image,
                         window_images |-> WindowImages(windows),
                         image_hash |-> image_hash,
                         capture_duration |-> elapsed],
             trace |-> <<"capture_image", "calculate_hash", "capture_all_visible_windows">>,
             log |-> WindowLog(windows)]

InitCapture ==
    /\ cap_calls = 0
    /\ cap_env = [monitor |-> [ok |-> FALSE], windows |-> [ok |-> FALSE]]
    /\ cap_result = [kind |-> "none"]
    /\ cap_trace = <<>>
    /\ cap_log = <<>>

\* One call of capture_screenshot; cap_env keeps what the backends answer.
CaptureScreenshot ==
    /\ cap_calls < MaxCaptures
    /\ \E monitor \in MonitorAnswers, windows \in WindowAnswers, elapsed \in Durations :
          LET r == capture_screenshot(monitor, windows, elapsed)
          IN /\ cap_env' = [monitor |-> monitor, windows |-> windows]
             /\ cap_result' = r.result
             /\ cap_trace' = r.trace
             /\ cap_log' = r.log
    /\ cap_calls' = cap_calls + 1

----------------------------------------------------------------------------
(* compare_images_histogram, compare_images_ssim, compare_with_previous_image *)

\* Scores are kept in hundredths: Scale stands for 1.0.
Scale == 100

HistogramValues == {0, 40, Scale}
SsimValues == {0 - Scale, 20, Scale}

\* The images compared: one of each width (what they show does not steer the code).
ComparedImages == {im \in Images : \A i \in 1..Len(im.bytes) : im.bytes[i] = 0}

SameDimensions(image1, image2) ==
    image1.width = image2.width /\ image1.height = image2.height

\* What image_compare::gray_similarity_histogram can answer for two images: a
\* distance in [0, 1], or an error.
HistogramAnswers(image1, image2) ==
    {[ok |-> FALSE]} \cup {[ok |-> TRUE, score |-> v] : v \in HistogramValues}

\* What image_compare::gray_similarity_structure can answer: an error when the
\* dimensions differ, a score in [-1, 1] otherwise.
SsimAnswers(image1, image2) ==
    IF ~SameDimensions(image1, image2) THEN {[ok |-> FALSE]}
    ELSE {[ok |-> TRUE, score |-> v] : v \in SsimValues}

\* compare_images_histogram: .map_err(|e| anyhow!("Failed to compare images: {}", e))
compare_images_histogram(answer) ==
    IF answer.ok THEN [kind |-> "Ok", value |-> answer.score]
    ELSE [kind |-> "Err", error |-> "Failed to compare images"]

\* compare_images_ssim: .expect("Images had different dimensions") unwinds on Err.
compare_images_ssim(answer) ==
    IF answer.ok THEN [kind |-> "Ok", value |-> answer.score]
    ELSE [kind |-> "Panic", message |-> "Images had different dimensions"]

\* A combination that adds the similarity itself instead of 1.0 - similarity.
CurrentAverageWithoutComplement(histogram_diff, ssim) == histogram_diff + ssim

\* (histogram_diff + ssim_diff) / 2.0, in units of 1/(2 * Scale): the halving is
\* kept in the unit so that the value stays an integer.
CurrentAverage(histogram_diff, ssim) == histogram_diff + (Scale - ssim)

\* compare_with_previous_image, given the answers of the two library comparisons.
\* It yields the outcome, the comparisons attempted and the two &mut arguments as
\* the call leaves them: max_average and max_avg_value are only read (debug!).
\* A compare_with_previous_image that records a new maximum in the tracker.
compare_with_previous_image_tracking(prev, hist, ssim, max_avg, max_val, frame) ==
    IF ~prev.some
    THEN [result |-> [kind |-> "Ok", value |-> 0], trace |-> <<>>,
          max_average |-> max_avg, max_avg_value |-> max_val]
    ELSE LET h == compare_images_histogram(hist)
             s == compare_images_ssim(ssim)
             better == h.kind = "Ok" /\ s.kind = "Ok"
                       /\ CurrentAverage(h.value, s.value) > max_val
         IN [result |-> IF h.kind = "Err" THEN h
                        ELSE IF s.kind = "Panic" THEN s
                        ELSE [kind |-> "Ok", value |-> CurrentAverage(h.value, s.value)],
             trace |-> IF h.kind = "Err" THEN <<"histogram">> ELSE <<"histogram", "ssim">>,
             max_average |-> IF better THEN Some([frame_number |-> frame]) ELSE max_avg,
             max_avg_value |-> IF better THEN CurrentAverage(h.value, s.value) ELSE max_val]

compare_with_previous_image(prev, hist, ssim, max_avg, max_val, frame) ==
    IF ~prev.some
    THEN [result |-> [kind |-> "Ok", value |-> 0], trace |-> <<>>,
          max_average |-> max_avg, max_avg_value |-> max_val]
    ELSE LET h == compare_images_histogram(hist)
             s == compare_images_ssim(ssim)
         IN [result |-> IF h.kind = "Err" THEN h
                        ELSE IF s.kind = "Panic" THEN s
                        ELSE [kind |-> "Ok", value |-> CurrentAverage(h.value, s.value)],
             trace |-> IF h.kind = "Err" THEN <<"histogram">> ELSE <<"histogram", "ssim">>,
             max_average |-> max_avg,
             max_avg_value |-> max_val]

\* The tracker values a caller may hold when it starts calling.
InitCompare ==
    /\ frame_number = 0
    /\ previous_image = None
    /\ current_image \in {im \in ComparedImages : im.width = 1}
    /\ \/ max_average = None /\ max_avg_value = 0
       \/ max_average = Some([frame_number |-> 0]) /\ max_avg_value = Scale
    /\ cmp_op = "none"
    /\ cmp_env = [hist |-> [ok |-> FALSE], ssim |-> [ok |-> FALSE]]
    /\ cmp_result = [kind |-> "none"]
    /\ cmp_trace = <<>>
    /\ best = None
    /\ crashed = FALSE

\* The Change Tracker's observe: the observation with the largest score so far,
\* after a call returned Ok(score) for frame n.  A first observation creates it and
\* a score that is a new maximum replaces it.
Observe(b, n, result) ==
    IF result.kind # "Ok" THEN b
    ELSE IF ~b.some \/ result.value > b.value.score
    THEN Some([frame_number |-> n, score |-> result.value])
    ELSE b

\* One call of compare_with_previous_image for the next frame.
CompareWithPreviousImage ==
    /\ ~crashed
    /\ frame_number < MaxFrames
    /\ \E prev \in {None} \cup {Some(im) : im \in ComparedImages}, cur \in ComparedImages :
          \E hist \in (IF prev.some THEN HistogramAnswers(prev.value, cur) ELSE {[ok |-> FALSE]}),
             ssim \in (IF prev.some THEN SsimAnswers(prev.value, cur) ELSE {[ok |-> FALSE]}) :
             LET r == compare_with_previous_image(prev, hist, ssim, max_average,
                                                  max_avg_value, frame_number + 1)
             IN /\ previous_image' = prev
                /\ current_image' = cur
                /\ cmp_env' = [hist |-> hist, ssim |-> ssim]
                /\ cmp_result' = r.result
                /\ cmp_trace' = r.trace
                /\ max_average' = r.max_average
                /\ max_avg_value' = r.max_avg_value
                /\ crashed' = (r.result.kind = "Panic")
                /\ best' = Observe(best, frame_number + 1, r.result)
    /\ cmp_op' = "compare_with_previous_image"
    /\ frame_number' = frame_number + 1

\* One direct call of compare_images_ssim (it is pub).
CompareImagesSsim ==
    /\ ~crashed
    /\ frame_number < MaxFrames
    /\ \E image1 \in ComparedImages, image2 \in ComparedImages :
          \E ssim \in SsimAnswers(image1, image2) :
             LET r == compare_images_ssim(ssim)
             IN /\ previous_image' = Some(image1)
                /\ current_image' = image2
                /\ cmp_env' = [hist |-> [ok |-> FALSE], ssim |-> ssim]
                /\ cmp_result' = r
                /\ cmp_trace' = <<"ssim">>
                /\ crashed' = (r.kind = "Panic")
    /\ cmp_op' = "compare_images_ssim"
    /\ UNCHANGED <<frame_number, max_average, max_avg_value, best>>

----------------------------------------------------------------------------
(* save_text_files *)

Categories == {"new", "current", "previous"}

\* The maps of a text_json argument: a line record, or a map without a "text" key.
TextRecords == {[text |-> "a", confidence |-> "90.00"], [confidence |-> "n/a"]}

TextJsons == UNION {[1..n -> TextRecords] : n \in 0..MaxLines}

\* How the file system answers one call: whether create_dir_all and each
\* File::create succeed, and which writeln! of each file fails (0: none).
FsAnswers ==
    [dir_ok : BOOLEAN,
     create_ok : [Categories -> BOOLEAN],
     write_fail : [Categories -> 0..MaxLines]]

\* .iter().map(|record| record.get("text").cloned().unwrap_or_default()).collect()
TextLines(text_json) ==
    [i \in 1..Len(text_json) |->
        IF "text" \in DOMAIN text_json[i] THEN text_json[i].text ELSE ""]

\* base_path.join(format!("{category}_text_{id}.txt"))
TextFilePath(category, id) ==
    "text_json/" \o category \o "_text_" \o ToString(id) \o ".txt"

\* The state of a call before its first statement.
SaveStart == [status |-> "running", trace |-> <<>>, log |-> <<>>, files |-> <<>>]

\* if let Err(e) = fs::create_dir_all("text_json") { error!(..); return; }
CreateDir(st, answers) ==
    LET tried == [st EXCEPT !.trace = Append(@, [op |-> "create_dir_all", path |-> "text_json"])]
    IN IF answers.dir_ok THEN tried
       ELSE [tried EXCEPT !.status = "returned",
                          !.log = Append(@, "error: Failed to create text_json directory")]

\* The writeln! calls of one file: all of lines, or those up to the failing one.
WritesAttempted(lines, fail_at) ==
    IF fail_at \in 1..Len(lines) THEN SubSeq(lines, 1, fail_at) ELSE lines

WritesDone(lines, fail_at) ==
    IF fail_at \in 1..Len(lines) THEN SubSeq(lines, 1, fail_at - 1) ELSE lines

\* match File::create(&path) { Ok(file) => file, Err(e) => { error!(..); return; } }
\* followed by the for loop of writeln! calls; on_error is what a failing writeln!
\* leads to: "panicked" for .unwrap(), "returned" for error!(..) and return.
WriteFile(st, category, lines, id, answers, on_error) ==
    IF st.status # "running" THEN st
    ELSE LET path == TextFilePath(category, id)
             fail_at == answers.write_fail[category]
             failed == fail_at \in 1..Len(lines)
             created == [st EXCEPT !.trace = Append(@, [op |-> "create", path |-> path])]
             writes == [i \in 1..Len(WritesAttempted(lines, fail_at)) |->
                           [op |-> "writeln", path |-> path]]
         IN IF ~answers.create_ok[category]
            THEN [created EXCEPT
                     !.status = "returned",
                     !.log = Append(@, "error: Failed to create " \o category \o " text file")]
            ELSE [created EXCEPT
                     !.trace = @ \o writes,
                     !.files = Append(@, [path |-> path, lines |-> WritesDone(lines, fail_at)]),
                     !.status = IF failed THEN on_error ELSE @,
                     !.log = IF failed /\ on_error = "returned"
                             THEN Append(@, "error: Failed to write to " \o category \o " text file")
                             ELSE @]

\* let mut new_text_file = ..; for line in new_text_lines { writeln!(..).unwrap(); }
SaveNew(st, in, answers) ==
    WriteFile(st, "new", TextLines(in.new_text_json), in.frame_number, answers, "panicked")

\* let mut current_text_file = ..; for line in current_text_lines { writeln!(..).unwrap(); }
SaveCurrent(st, in, answers) ==
    WriteFile(st, "current", TextLines(in.current_text_json), in.frame_number, answers, "panicked")

\* if let Some(prev_json) = previous_text_json { ..; if let Err(e) = writeln!(..) { error!; return } }
SavePrevious(st, in, answers) ==
    IF ~in.previous_text_json.some THEN st
    ELSE WriteFile(st, "previous", TextLines(in.previous_text_json.value),
                   in.frame_number, answers, "returned")

\* save_text_files: the statements in order; falling off the end returns.
save_text_files(in, answers) ==
    LET st == SavePrevious(SaveCurrent(SaveNew(CreateDir(SaveStart, answers), in, answers),
                                       in, answers), in, answers)
    IN [st EXCEPT !.status = IF @ = "running" THEN "returned" ELSE @]

InitSave ==
    /\ save_in \in [frame_number : {7},
                    new_text_json : TextJsons,
                    current_text_json : TextJsons,
                    previous_text_json : {None} \cup {Some(t) : t \in TextJsons}]
    /\ fs \in FsAnswers
    /\ save_result = "none"
    /\ save_trace = <<>>
    /\ save_log = <<>>
    /\ files = <<>>

\* One call of save_text_files.
SaveTextFiles ==
    /\ save_result = "none"
    /\ LET st == save_text_files(save_in, fs)
       IN /\ save_result' = st.status
          /\ save_trace' = st.trace
          /\ save_log' = st.log
          /\ files' = st.files
    /\ UNCHANGED <<save_in, fs>>

----------------------------------------------------------------------------
(* Specifications: one per component, the others idle *)

OcrIdle ==
    /\ data = <<>>
    /\ ocr_pc = "idle"
    /\ text_out = ""
    /\ json_out = <<>>
    /\ scan_trace = <<>>

CaptureIdle ==
    /\ cap_calls = 0
    /\ cap_env = [monitor |-> [ok |-> FALSE], windows |-> [ok |-> FALSE]]
    /\ cap_result = [kind |-> "none"]
    /\ cap_trace = <<>>
    /\ cap_log = <<>>

CompareIdle ==
    /\ frame_number = 0
    /\ previous_image = None
    /\ current_image = None
    /\ max_average = None
    /\ max_avg_value = 0
    /\ cmp_op = "none"
    /\ cmp_env = [hist |-> [ok |-> FALSE], ssim |-> [ok |-> FALSE]]
    /\ cmp_result = [kind |-> "none"]
    /\ cmp_trace = <<>>
    /\ best = None
    /\ crashed = FALSE

SaveIdle ==
    /\ save_in = None
    /\ fs = None
    /\ save_result = "idle"
    /\ save_trace = <<>>
    /\ save_log = <<>>
    /\ files = <<>>

NextOcr == PerformOcrTesseract /\ UNCHANGED <<cap_vars, cmp_vars, save_vars, hash_vars>>

InitOcrSpec == InitOcr /\ CaptureIdle /\ CompareIdle /\ SaveIdle /\ InitHash

SpecOcr == InitOcrSpec /\ [][NextOcr]_vars

NextCapture == CaptureScreenshot /\ UNCHANGED <<ocr_vars, cmp_vars, save_vars, hash_vars>>

InitCaptureSpec == OcrIdle /\ InitCapture /\ CompareIdle /\ SaveIdle /\ InitHash

SpecCapture == InitCaptureSpec /\ [][NextCapture]_vars

NextCompare ==
    \/ CompareImagesSsim /\ UNCHANGED <<ocr_vars, cap_vars, save_vars, hash_vars>>
    \/ CompareWithPreviousImage /\ UNCHANGED <<ocr_vars, cap_vars, save_vars, hash_vars>>

InitCompareSpec == OcrIdle /\ CaptureIdle /\ InitCompare /\ SaveIdle /\ InitHash

SpecCompare == InitCompareSpec /\ [][NextCompare]_vars

NextHash == CalculateHash /\ UNCHANGED <<ocr_vars, cap_vars, cmp_vars, save_vars>>

InitHashSpec == OcrIdle /\ CaptureIdle /\ CompareIdle /\ SaveIdle /\ InitHash

SpecHash == InitHashSpec /\ [][NextHash]_vars

NextSave == SaveTextFiles /\ UNCHANGED <<ocr_vars, cap_vars, cmp_vars, hash_vars>>

InitSaveSpec == OcrIdle /\ CaptureIdle /\ CompareIdle /\ InitSave /\ InitHash

SpecSave == InitSaveSpec /\ [][NextSave]_vars

----------------------------------------------------------------------------
(* Vocabulary of the properties *)

RECURSIVE JoinWithSpaces(_)
\* The strings of a non-empty sequence, one space between neighbours.
JoinWithSpaces(strings) ==
    IF Len(strings) = 0 THEN ""
    ELSE IF Len(strings) = 1 THEN strings[1]
    ELSE strings[1] \o " " \o JoinWithSpaces(Tail(strings))

\* The non-empty strings of a sequence, one space between neighbours.
JoinNonEmpty(strings) == JoinWithSpaces(SelectSeq(strings, LAMBDA t : t # ""))

RECURSIVE SumConf(_)
SumConf(tokens) ==
    IF Len(tokens) = 0 THEN 0 ELSE tokens[1].conf + SumConf(Tail(tokens))

\* A marker, then n >= 1 words with ordinals 1..n, then a closing marker.
IsLineStream(records) ==
    /\ Len(records) >= 3
    /\ records[1].word_num = 0
    /\ records[Len(records)].word_num = 0
    /\ \A i \in 2..Len(records) - 1 : records[i].word_num = i - 1

\* The words of a single-line stream.
WordsOf(records) == SubSeq(records, 2, Len(records) - 1)

TextsOf(tokens) == [i \in 1..Len(tokens) |-> tokens[i].text]

\* Token i is accepted as a real word: its ordinal exceeds that of the token before
\* it (0 before the first token).
Accepted(records, i) ==
    records[i].word_num > (IF i = 1 THEN 0 ELSE records[i - 1].word_num)

RECURSIVE LineGroupsFrom(_, _, _, _)
\* The accepted words of each line of the stream: a line runs from one marker (or
\* the start) to the next marker (or the end).
LineGroupsFrom(records, i, groups, current) ==
    IF i > Len(records) THEN Append(groups, current)
    ELSE IF records[i].word_num = 0
    THEN LineGroupsFrom(records, i + 1, Append(groups, current), <<>>)
    ELSE LineGroupsFrom(records, i + 1, groups,
                        IF Accepted(records, i) THEN Append(current, records[i]) ELSE current)

LineGroups(records) == LineGroupsFrom(records, 1, <<>>, <<>>)

\* The lines that have text: those with an accepted word whose text is not empty.
TextLineGroups(records) ==
    SelectSeq(LineGroups(records), LAMBDA g : \E k \in 1..Len(g) : g[k].text # "")

\* Every token is a marker without text or an accepted word with text.
IsCleanStream(records) ==
    \A i \in 1..Len(records) :
        \/ records[i].word_num = 0 /\ records[i].text = ""
        \/ records[i].word_num # 0 /\ Accepted(records, i) /\ records[i].text # ""

----------------------------------------------------------------------------
(* Properties *)

\* C1: comparing a previous and a current image of different width or height
\* ends in an error value returned to the caller (DimensionMismatch), never in a
\* panic.  (Stated as claimed; the code violates it.)
C1_DimensionMismatchIsRecoverable ==
    (/\ cmp_op # "none"
     /\ previous_image.some
     /\ ~SameDimensions(previous_image.value, current_image))
    => (cmp_result.kind = "Err" /\ ~crashed)

\* C2: when the monitor capture succeeds and the window capture fails,
\* capture_screenshot returns Ok with the monitor's image, the hash of that image
\* and no window images.
C2_WindowFailureTolerated ==
    (cap_calls > 0 /\ cap_env.monitor.ok /\ ~cap_env.windows.ok)
    => /\ cap_result.kind = "Ok"
       /\ cap_result.image = cap_env.monitor.buffer
       /\ cap_result.image_hash = calculate_hash(cap_env.monitor.buffer)
       /\ cap_result.window_images = <<>>

\* C2 witness: a call whose monitor capture succeeded and whose window capture
\* failed has returned Ok and logged the warning.
C2_Witness ==
    /\ cap_calls > 0
    /\ cap_env.monitor.ok
    /\ cap_env.monitor.buffer.bytes = <<1, 0>>
    /\ ~cap_env.windows.ok
    /\ cap_result.kind = "Ok"
    /\ cap_result.window_images = <<>>
    /\ Len(cap_log) = 1

\* C3: once compare_with_previous_image has processed frames, the tracked
\* MaxAverageFrame exists and holds the ordinal of the observation with the largest
\* score so far.  (Stated as claimed; the code violates it.)
C3_TrackerFollowsMaximum ==
    best.some
    => (max_average.some /\ max_average.value.frame_number = best.value.frame_number)

\* C4 as claimed: a marker, n >= 1 words with ordinals 1..n and a closing marker
\* give exactly one line record, its text the word texts joined by single spaces
\* and its confidence their mean with two decimals.  (Violated when word texts
\* are empty.)
C4_SingleLineAsClaimed ==
    (ocr_pc = "done" /\ IsLineStream(data))
    => /\ Len(json_out) = 1
       /\ json_out[1].text = JoinWithSpaces(TextsOf(WordsOf(data)))
       /\ json_out[1].confidence =
              FormatAvgConf(SumConf(WordsOf(data)), Len(WordsOf(data)))

\* C4 amended: the same, for the streams whose first word has a non-empty text.
C4_SingleLineRecord ==
    (ocr_pc = "done" /\ IsLineStream(data) /\ data[2].text # "")
    => /\ Len(json_out) = 1
       /\ json_out[1].text = JoinWithSpaces(TextsOf(WordsOf(data)))
       /\ json_out[1].confidence =
              FormatAvgConf(SumConf(WordsOf(data)), Len(WordsOf(data)))

\* C4 witness: marker, "a" (90), "b" (50), marker has given one record "a b" with
\* confidence 70.00.
C4_Witness ==
    /\ ocr_pc = "done"
    /\ IsLineStream(data)
    /\ Len(data) = 4
    /\ data[2].text = "a" /\ data[2].conf = 90
    /\ data[3].text = "b" /\ data[3].conf = 50
    /\ Len(json_out) = 1
    /\ json_out[1].text = "a b"
    /\ json_out[1].confidence = "70.00"

\* C5: the confidence of each line record is the mean of the confidences of the
\* accepted words of that record's own line, nothing of an earlier line carried
\* in.  (Stated as claimed; the code violates it.)
C5_ConfidenceOfOwnLine ==
    ocr_pc = "done"
    => LET groups == TextLineGroups(data)
       IN /\ Len(json_out) = Len(groups)
          /\ \A i \in 1..Len(groups) :
                json_out[i].confidence = FormatAvgConf(SumConf(groups[i]), Len(groups[i]))

\* C6: a stream that ends on a word while the accumulated line is not empty gives
\* a record for that line as the last element of the output, after the records
\* closed by markers.
C6_TrailingLineFlushed ==
    (/\ ocr_pc = "done"
     /\ Len(data) > 0
     /\ data[Len(data)].word_num # 0
     /\ Scan(data).current_line # "")
    => /\ Len(json_out) = Len(Scan(data).lines) + 1
       /\ SubSeq(json_out, 1, Len(json_out) - 1) = Scan(data).lines
       /\ json_out[Len(json_out)].text = Scan(data).current_line
       /\ json_out[Len(json_out)].confidence =
              FormatAvgConf(Scan(data).current_conf, Scan(data).word_count)

\* C6 witness: "a", marker, "b" has given the records "a" and, at the end of the
\* stream, "b".
C6_Witness ==
    /\ ocr_pc = "done"
    /\ Len(data) = 3
    /\ data[2].word_num = 0
    /\ data[3].word_num # 0
    /\ Len(json_out) = 2
    /\ json_out[1].text = "a"
    /\ json_out[2].text = "b"

\* C7: every line record carries text, confidence and the position descriptor.
\* (Stated as claimed; the code violates it.)
C7_RecordsCarryThreeFields ==
    ocr_pc = "done"
    => \A i \in 1..Len(json_out) :
          {"text", "confidence", "line_position"} \subseteq DOMAIN json_out[i]

\* C8 as claimed: the flattened text is the non-empty texts of the line records
\* joined by single spaces.  (Violated by skipped tokens and markers with text.)
C8_TextOfLineRecordsAsClaimed ==
    ocr_pc = "done"
    => text_out = JoinNonEmpty([i \in 1..Len(json_out) |-> json_out[i].text])

\* C8 amended: the flattened text is the non-empty texts of the tokens of the
\* stream, in order, joined by single spaces; it is that of the line records when
\* every token is a marker without text or an accepted word with text.
C8_TextOfTokens ==
    ocr_pc = "done"
    => /\ text_out = JoinNonEmpty(TextsOf(data))
       /\ IsCleanStream(data)
          => text_out = JoinNonEmpty([i \in 1..Len(json_out) |-> json_out[i].text])

\* C8 witness: the clean stream "a", marker, "b" has given two records and the
\* text "a b".
C8_Witness ==
    /\ ocr_pc = "done"
    /\ IsCleanStream(data)
    /\ Len(data) = 3
    /\ Len(json_out) = 2
    /\ text_out = "a b"

\* The categories a call of save_text_files has a file to write for.
WantedCategories ==
    {"new", "current"} \cup (IF save_in.previous_text_json.some THEN {"previous"} ELSE {})

\* The call requested File::create for the category's file.
CreateAttempted(category) ==
    \E k \in 1..Len(save_trace) :
        save_trace[k] = [op |-> "create", path |-> TextFilePath(category, save_in.frame_number)]

\* The lines save_text_files has to write for a category.
LinesOf(category) ==
    IF category = "new" THEN TextLines(save_in.new_text_json)
    ELSE IF category = "current" THEN TextLines(save_in.current_text_json)
    ELSE TextLines(save_in.previous_text_json.value)

\* A writeln! to the category's file was attempted and failed.
WriteFailed(category) ==
    /\ category \in WantedCategories
    /\ \E k \in 1..Len(files) : files[k].path = TextFilePath(category, save_in.frame_number)
    /\ fs.write_fail[category] \in 1..Len(LinesOf(category))

\* C9: with the directory in place and no write failing, a File::create that
\* fails stops only its own category: the file of every other category is still
\* requested.  (Stated as claimed; the code violates it.)
C9_CreateFailureIsolated ==
    (/\ save_result \in {"returned", "panicked"}
     /\ fs.dir_ok
     /\ \A c \in Categories : fs.write_fail[c] = 0)
    => \A c \in WantedCategories : CreateAttempted(c)

\* C10: a writeln! that fails is logged and the call returns normally, whatever
\* the category; it never panics.  (Stated as claimed; the code violates it.)
C10_WriteFailureLogged ==
    \A c \in Categories :
        (save_result \in {"returned", "panicked"} /\ WriteFailed(c))
        => /\ save_result = "returned"
           /\ \E k \in 1..Len(save_log) :
                 save_log[k] = "error: Failed to write to " \o c \o " text file"

\* C11: when the monitor capture fails, capture_screenshot returns the capture
\* error: the monitor was asked once, no hash was computed, the windows were not
\* requested and the result holds no image, hash or window list.
C11_MonitorFailureIsFatal ==
    (cap_calls > 0 /\ ~cap_env.monitor.ok)
    => /\ cap_result.kind = "Err"
       /\ cap_result.error = "Monitor capture failed"
       /\ DOMAIN cap_result = {"kind", "error"}
       /\ cap_trace = <<"capture_image">>

\* C11 witness: a call whose monitor capture failed, while the window backend
\* would have answered, has returned the error and logged it.
C11_Witness ==
    /\ cap_calls > 0
    /\ ~cap_env.monitor.ok
    /\ cap_env.windows.ok
    /\ cap_result.kind = "Err"
    /\ cap_log = <<"error: Failed to capture monitor image">>

\* The last call was compare_with_previous_image and has come to its end.
ComparedWithPrevious == cmp_op = "compare_with_previous_image"

\* C12 as claimed: without a previous image the call returns Ok(0.0) and attempts
\* no comparison; with one (of the current image's dimensions), both comparisons
\* are attempted, histogram first, and the score is
\* (histogram + (1 - similarity)) / 2.  (Violated when the histogram comparison
\* fails.)
C12_BothComparisonsAsClaimed ==
    ComparedWithPrevious
    => /\ ~previous_image.some
          => (cmp_result = [kind |-> "Ok", value |-> 0] /\ cmp_trace = <<>>)
       /\ (previous_image.some /\ SameDimensions(previous_image.value, current_image))
          => /\ cmp_trace = <<"histogram", "ssim">>
             /\ cmp_result.kind = "Ok"
             /\ cmp_result.value = cmp_env.hist.score + (Scale - cmp_env.ssim.score)

\* C12 amended: without a previous image the call returns Ok(0.0) and attempts no
\* comparison; with one, the histogram comparison is attempted first, the
\* structural comparison is attempted exactly when the histogram comparison
\* succeeded, a histogram error is returned as the call's error, and a call that
\* returns a score has attempted both and returns
\* (histogram + (1 - similarity)) / 2.
C12_ComparisonsInOrder ==
    ComparedWithPrevious
    => /\ ~previous_image.some
          => (cmp_result = [kind |-> "Ok", value |-> 0] /\ cmp_trace = <<>>)
       /\ previous_image.some
          => /\ cmp_trace = (IF cmp_env.hist.ok THEN <<"histogram", "ssim">>
                             ELSE <<"histogram">>)
             /\ ~cmp_env.hist.ok => cmp_result.kind = "Err"
             /\ cmp_result.kind = "Ok"
                => /\ cmp_trace = <<"histogram", "ssim">>
                   /\ cmp_result.value = cmp_env.hist.score + (Scale - cmp_env.ssim.score)

\* C12 witness: a call with a previous image whose comparisons answered 0.4 and
\* 0.2 has returned (0.4 + 0.8) / 2, after a first call without a previous image.
C12_Witness ==
    /\ ComparedWithPrevious
    /\ frame_number = 2
    /\ previous_image.some
    /\ cmp_env.hist = [ok |-> TRUE, score |-> 40]
    /\ cmp_env.ssim = [ok |-> TRUE, score |-> 20]
    /\ cmp_trace = <<"histogram", "ssim">>
    /\ cmp_result = [kind |-> "Ok", value |-> 120]

\* C13 as claimed: with a histogram distance in [0, 1] and a structural similarity
\* in [-1, 1] the score returned lies in [0, 1].  (Violated by a negative
\* similarity.)
C13_ScoreInUnitIntervalAsClaimed ==
    (ComparedWithPrevious /\ cmp_result.kind = "Ok")
    => (0 <= cmp_result.value /\ cmp_result.value <= 2 * Scale)

\* C13 amended: the score returned lies in [0, 1.5]; it lies in [0, 1] when the
\* structural similarity is not negative.
C13_ScoreRange ==
    (ComparedWithPrevious /\ cmp_result.kind = "Ok")
    => /\ 0 <= cmp_result.value
       /\ cmp_result.value <= 3 * Scale
       /\ (previous_image.some /\ cmp_env.ssim.score >= 0)
          => cmp_result.value <= 2 * Scale

\* C13 witness: distance 1.0 and similarity -1.0 have given the score 1.5.
C13_Witness ==
    /\ ComparedWithPrevious
    /\ previous_image.some
    /\ cmp_env.hist = [ok |-> TRUE, score |-> Scale]
    /\ cmp_env.ssim = [ok |-> TRUE, score |-> 0 - Scale]
    /\ cmp_result = [kind |-> "Ok", value |-> 3 * Scale]

\* C14: an empty token sequence gives an empty sequence of line records and an
\* empty flattened text.
C14_EmptyStream ==
    (ocr_pc = "done" /\ data = <<>>)
    => (json_out = <<>> /\ text_out = "")

\* C14 witness: perform_ocr_tesseract has run on the empty stream.
C14_Witness ==
    /\ ocr_pc = "done"
    /\ data = <<>>
    /\ scan_trace = <<ScanInit>>
    /\ json_out = <<>>
    /\ text_out = ""

\* C15: calculate_hash depends on the bytes of the image alone: any two calls,
\* whenever made and on whichever instances, that were given the same bytes have
\* returned the same value.
C15_HashOfBytesAlone ==
    \A i \in 1..Len(hash_log), j \in 1..Len(hash_log) :
        hash_log[i].image.bytes = hash_log[j].image.bytes
        => hash_log[i].hash = hash_log[j].hash

\* C15 witness: two instances of different shape holding the same bytes have been
\* hashed, to the same value.
C15_Witness ==
    /\ Len(hash_log) = 2
    /\ hash_log[1].image.id # hash_log[2].image.id
    /\ hash_log[1].image.width # hash_log[2].image.width
    /\ hash_log[1].image.bytes = <<1, 0>>
    /\ hash_log[2].image.bytes = <<1, 0>>
    /\ hash_log[1].hash = hash_log[2].hash

\* The ordinal of the token before token i (0 before the first token).
PrecedingOrdinal(records, i) == IF i = 1 THEN 0 ELSE records[i - 1].word_num

\* Iteration i of the scan pushed a record.
PushedAt(i) == Len(scan_trace[i + 1].lines) = Len(scan_trace[i].lines) + 1

\* C16: in every iteration of the scan the last-seen ordinal is the preceding
\* token's before and the token's own after; a token is appended (with the
\* separating space) and its confidence counted exactly when its ordinal is greater
\* than the preceding token's; a token whose ordinal does not increase leaves text,
\* sum and count alone; a marker adds nothing to text, sum or count.
C16_AcceptedIffOrdinalIncreases ==
    ocr_pc = "done"
    => \A i \in 1..Len(data) :
          LET before == scan_trace[i]
              after == scan_trace[i + 1]
              record == data[i]
          IN /\ before.last_word_num = PrecedingOrdinal(data, i)
             /\ after.last_word_num = record.word_num
             /\ record.word_num > PrecedingOrdinal(data, i)
                => /\ after.current_line =
                        (IF before.current_line # "" THEN before.current_line \o " " ELSE "")
                        \o record.text
                   /\ after.current_conf = before.current_conf + record.conf
                   /\ after.word_count = before.word_count + 1
                   /\ after.lines = before.lines
             /\ (record.word_num # 0 /\ record.word_num <= PrecedingOrdinal(data, i))
                => /\ after.current_line = before.current_line
                   /\ after.current_conf = before.current_conf
                   /\ after.word_count = before.word_count
                   /\ after.lines = before.lines
             /\ record.word_num = 0
                => /\ after.current_line = ""
                   /\ after.current_conf \in {0, before.current_conf}
                   /\ after.word_count \in {0, before.word_count}
                   /\ \/ after.lines = before.lines
                      \/ /\ PushedAt(i)
                         /\ after.lines[Len(after.lines)].text = before.current_line

\* C16 witness: ordinals 2, 1, 2 with text: the second token is skipped and the
\* third, no greater than the largest ordinal seen, is accepted.
C16_Witness ==
    /\ ocr_pc = "done"
    /\ Len(data) = 3
    /\ data[1].word_num = 2 /\ data[2].word_num = 1 /\ data[3].word_num = 2
    /\ \A i \in 1..3 : data[i].text = "a"
    /\ scan_trace[3].current_line = "a"
    /\ scan_trace[4].current_line = "a a"
    /\ scan_trace[4].word_count = 2

\* C17: wherever the scan pushes a record, at a marker or after the last token,
\* at least one word has been counted, and no record's confidence is the result of
\* a division by zero.
C17_CountPositiveAtFinalization ==
    ocr_pc = "done"
    => /\ \A i \in 1..Len(data) : PushedAt(i) => scan_trace[i].word_count >= 1
       /\ Len(json_out) > Len(scan_trace[Len(data) + 1].lines)
          => scan_trace[Len(data) + 1].word_count >= 1
       /\ \A k \in 1..Len(json_out) : json_out[k].confidence # "NaN"

\* C17 witness: a marker that follows an empty line (nothing pushed), a record
\* pushed at a marker and one pushed after the last token.
C17_Witness ==
    /\ ocr_pc = "done"
    /\ Len(data) = 3
    /\ data[1].word_num = 0 /\ ~PushedAt(1)
    /\ data[3].word_num = 0 /\ PushedAt(3)
    /\ Len(json_out) = 1

\* The accepted tokens of the line that marker i closes.
OwnWords(records, i) ==
    {j \in 1..i - 1 : /\ Accepted(records, j)
                      /\ \A k \in j..i - 1 : records[k].word_num # 0}

\* C18: the position descriptor of a record pushed at a marker names the page,
\* block, paragraph and line of the record's own words, not those of the marker
\* that closed the line.  (Stated as claimed; the code violates it.)
C18_PositionOfOwnLine ==
    ocr_pc = "done"
    => \A i \in 1..Len(data) :
          PushedAt(i)
          => \A j \in OwnWords(data, i) :
                scan_trace[i + 1].lines[Len(scan_trace[i + 1].lines)].line_position
                = FormatLinePosition([data[i] EXCEPT !.page_num = data[j].page_num,
                                                     !.block_num = data[j].block_num,
                                                     !.par_num = data[j].par_num,
                                                     !.line_num = data[j].line_num])

\* C19: a step of compare_with_previous_image (the only step that advances the
\* frame ordinal) leaves max_average and max_avg_value as they were.
C19_TrackerUnchanged ==
    [][frame_number' # frame_number
       => (max_average' = max_average /\ max_avg_value' = max_avg_value)]_vars

\* C19 witness: calls with a previous image have returned, the last with a score
\* above the running maximum, and the tracker still has its starting values.
C19_Witness ==
    /\ cmp_op = "compare_with_previous_image"
    /\ frame_number >= 2
    /\ previous_image.some
    /\ cmp_result.kind = "Ok"
    /\ cmp_result.value > max_avg_value
    /\ max_average = None
    /\ max_avg_value = 0

\* The markers of a stream.
MarkersOf(records) == {i \in 1..Len(records) : records[i].word_num = 0}

\* C20: every emitted record has non-empty text, and there are at most as many
\* records as markers in the stream plus one.
C20_RecordsNonEmptyAndBounded ==
    ocr_pc = "done"
    => /\ \A k \in 1..Len(json_out) : json_out[k].text # ""
       /\ Len(json_out) <= Cardinality(MarkersOf(data)) + 1

\* C20 witness: one marker between two lines with text, and two records, the
\* most the marker count allows.
C20_Witness ==
    /\ ocr_pc = "done"
    /\ Len(data) = 3
    /\ MarkersOf(data) = {2}
    /\ Len(json_out) = 2

=============================================================================
